---- MODULE Spec2Model ----
(***************************************************************************)
(* Model of src/main.rs of the "gardening" isometric tile-world renderer:  *)
(* the Tile catalog (tile_id, texture_rect), the World grid (get_index,    *)
(* set_tile, get_tile, new_flat), the projection tile_coords_to_px and the *)
(* draw pass draw_window.                                                  *)
(*                                                                         *)
(* Option<T> is modelled as a sequence: None is << >>, Some(v) is <<v>>.   *)
(* A Vec<Tile> is a sequence; the 0-based index i is element i + 1.        *)
(* A Rust panic (unwrap of None, slice index out of range) is modelled by  *)
(* pc = "panic", after which the program takes no further step.            *)
(***************************************************************************)
EXTENDS Integers, Sequences, FiniteSets, TLC

VARIABLES tiles, size_x, size_y, size_z, pc, nset, call, visited, frame

vars == <<tiles, size_x, size_y, size_z, pc, nset, call, visited, frame>>

\* ------------------------------------------------------------- bounds
\* Largest extent of a grid along one axis.
MaxSize == 2
\* Largest number of cells of a grid.
MaxCells == 8
\* Largest number of set_tile calls the application makes after new_flat.
MaxWrites == 2
\* Largest magnitude of the small coordinates fed to the pure functions.
MaxCoord == 2

\* ------------------------------------------------------ Option values
None == << >>
Some(v) == <<v>>

\* ------------------------------------------------------- Tile catalog
\* enum Tile { Air, Grass, Plant(bool) }
Tile == {"Air", "Grass", "Plant_false", "Plant_true"}

WIDTH_PX == 32
HEIGHT_PX == 32
ATLAS_LINE_TILE_COUNT == 16

\* tile_id with both plant states given the same id.
tile_id_plant(t) ==
    CASE t = "Air" -> 0
      [] t = "Grass" -> 1
      [] t = "Plant_false" -> 2
      [] t = "Plant_true" -> 2

tile_id(t) ==
    CASE t = "Air" -> 0
      [] t = "Grass" -> 1
      [] t = "Plant_false" -> 2
      [] t = "Plant_true" -> 3

\* Rect::new(left, top, width, height) of texture_rect, for the tile id a.
\* a is never negative, so Rust's truncating % and / agree with % and \div.
atlas_rect(a) ==
    << WIDTH_PX * (a % ATLAS_LINE_TILE_COUNT),
       HEIGHT_PX * (a \div ATLAS_LINE_TILE_COUNT),
       WIDTH_PX,
       HEIGHT_PX >>

\* texture_rect without the Air arm.
texture_rect_air_drawn(t) == Some(atlas_rect(tile_id(t)))

texture_rect(t) ==
    IF t = "Air" THEN None ELSE Some(atlas_rect(tile_id(t)))

\* --------------------------------------------------------- World grid
\* struct World { tiles, size_x, size_y, size_z }
World == [tiles |-> tiles, size_x |-> size_x, size_y |-> size_y, size_z |-> size_z]

\* get_index with > for >= in the bounds test.
get_index_gt(w, x, y, z) ==
    IF x < 0 \/ x > w.size_x \/ y < 0 \/ y > w.size_y \/ z < 0 \/ z > w.size_z
    THEN None
    ELSE Some(x + (y * w.size_x) + (z * w.size_x * w.size_y))

\* get_index with size_y for size_x as the stride of y.
get_index_ystride(w, x, y, z) ==
    IF x < 0 \/ x >= w.size_x \/ y < 0 \/ y >= w.size_y \/ z < 0 \/ z >= w.size_z
    THEN None
    ELSE Some(x + (y * w.size_y) + (z * w.size_x * w.size_y))

\* get_index with size_x for size_x * size_y as the stride of z.
get_index_stride(w, x, y, z) ==
    IF x < 0 \/ x >= w.size_x \/ y < 0 \/ y >= w.size_y \/ z < 0 \/ z >= w.size_z
    THEN None
    ELSE Some(x + (y * w.size_x) + (z * w.size_x))

\* The extents are usize and far below 2^63 here, so `size as i64` and
\* `x as usize` (taken only when x >= 0) keep the value.
get_index(w, x, y, z) ==
    IF x < 0 \/ x >= w.size_x \/ y < 0 \/ y >= w.size_y \/ z < 0 \/ z >= w.size_z
    THEN None
    ELSE Some(x + (y * w.size_x) + (z * w.size_x * w.size_y))

\* self.tiles[index] panics when index is not below the length.
index_ok(w, i) == i < Len(w.tiles)

\* set_tile: [ok |-> the call returned, world |-> the grid afterwards].
set_tile(w, x, y, z, tile) ==
    LET index == get_index(w, x, y, z) IN
    IF index = None THEN [ok |-> TRUE, world |-> w]
    ELSE IF ~index_ok(w, index[1]) THEN [ok |-> FALSE, world |-> w]
    ELSE [ok |-> TRUE,
          world |-> [w EXCEPT !.tiles = [w.tiles EXCEPT ![index[1] + 1] = tile]]]

\* get_tile: [ok |-> the call returned, ret |-> Option<Tile>].
get_tile(w, x, y, z) ==
    LET index == get_index(w, x, y, z) IN
    IF index = None THEN [ok |-> TRUE, ret |-> None]
    ELSE IF ~index_ok(w, index[1]) THEN [ok |-> FALSE, ret |-> None]
    ELSE [ok |-> TRUE, ret |-> Some(w.tiles[index[1] + 1])]

\* The range 0..n of a Rust for loop, as a sequence.
Range(n) == [k \in 1..n |-> k - 1]

\* for z in 0..size_z { world.set_tile(x, 0, z, Tile::Grass) }
RECURSIVE fill_z(_, _, _)
fill_z(r, x, zs) ==
    IF zs = << >> \/ ~r.ok THEN r
    ELSE fill_z(set_tile(r.world, x, 0, Head(zs), "Grass"), x, Tail(zs))

\* for x in 0..size_x { for z in 0..size_z { ... } }
RECURSIVE fill_x(_, _, _)
fill_x(r, xs, zs) ==
    IF xs = << >> \/ ~r.ok THEN r
    ELSE fill_x(fill_z(r, Head(xs), zs), Tail(xs), zs)

\* new_flat allocating size_x * size_y tiles.
new_flat_short(sx, sy, sz) ==
    LET world == [tiles |-> [i \in 1..(sx * sy) |-> "Air"],
                  size_x |-> sx, size_y |-> sy, size_z |-> sz]
    IN fill_x([ok |-> TRUE, world |-> world], Range(sx), Range(sz))

\* new_flat: [ok |-> the call returned, world |-> the grid built].
new_flat(sx, sy, sz) ==
    LET world == [tiles |-> [i \in 1..(sx * sy * sz) |-> "Air"],
                  size_x |-> sx, size_y |-> sy, size_z |-> sz]
    IN fill_x([ok |-> TRUE, world |-> world], Range(sx), Range(sz))

\* ---------------------------------------------------------- Projector
TILE_SIZE == 32
QUARTER_UNIT == TILE_SIZE \div 4
\* Width in bits of the i32 components of Vector2i.
I32_BITS == 32

\* (a * k) as i32 for a power of two k: the i64 product reduced modulo
\* 2^32 into [-2^31, 2^31). h is 2^31 / k, so the reduction is done on a
\* before the multiplication.
mul_as_i32(a, k) ==
    LET h == (2 ^ (I32_BITS - 2) \div k) * 2
        r == a % (2 * h)
    IN IF r >= h THEN (r - 2 * h) * k ELSE r * k

\* tile_coords_to_px with x - z for x + z in the vertical term.
tile_coords_to_px_minus(x, y, z) ==
    << mul_as_i32(x - z, QUARTER_UNIT * 2),
       mul_as_i32(x - z - y - y, QUARTER_UNIT) >>

\* tile_coords_to_px without the doubling of QUARTER_UNIT.
tile_coords_to_px_single_q(x, y, z) ==
    << mul_as_i32(x - z, QUARTER_UNIT),
       mul_as_i32(x + z - y - y, QUARTER_UNIT) >>

tile_coords_to_px(x, y, z) ==
    << mul_as_i32(x - z, QUARTER_UNIT * 2),
       mul_as_i32(x + z - y - y, QUARTER_UNIT) >>

\* Number of significand bits of an f32.
F32_MANTISSA_BITS == 24

RECURSIVE f32_ulp(_, _)
f32_ulp(m, u) == IF m < 2 ^ F32_MANTISSA_BITS THEN u ELSE f32_ulp(m \div 2, u * 2)

\* n as f32, for an integer n: the nearest f32, ties to the even significand.
as_f32(n) ==
    LET m == IF n < 0 THEN -n ELSE n
        u == f32_ulp(m, 1)
        q == m \div u
        rem == m % u
        up == (2 * rem > u) \/ (2 * rem = u /\ q % 2 = 1)
        v == (IF up THEN q + 1 ELSE q) * u
    IN IF n < 0 THEN -v ELSE v

\* draw_tile_at_px: the draw commands the call sends to the window, none
\* when the tile has no texture rectangle.
draw_tile_at_px(tile, x, y) ==
    LET texture_rect_ == texture_rect(tile) IN
    IF texture_rect_ = None THEN << >>
    ELSE << [position |-> <<as_f32(x), as_f32(y)>>,
             size |-> <<32, 32>>,
             fill_color |-> "WHITE",
             texture_rect |-> texture_rect_[1]] >>

\* px.x as i64 and px.y as i64 widen an i32 and keep the value.
draw_tile_at_grid(tile, x, y, z) ==
    LET px == tile_coords_to_px(x, y, z) IN
    draw_tile_at_px(tile, px[1], px[2])

\* for z in 0..size_z: the coordinates of one innermost loop.
row_z(y, x, sz) == [k \in 1..sz |-> <<x, y, k - 1>>]

\* The loop over x with the inclusive range 0..=size_x.
RECURSIVE loop_x_inclusive(_, _, _, _)
loop_x_inclusive(y, x, sx, sz) ==
    IF x > sx THEN << >> ELSE row_z(y, x, sz) \o loop_x_inclusive(y, x + 1, sx, sz)

\* for x in 0..size_x { for z in 0..size_z { .. } }
RECURSIVE loop_x(_, _, _, _)
loop_x(y, x, sx, sz) ==
    IF x >= sx THEN << >> ELSE row_z(y, x, sz) \o loop_x(y, x + 1, sx, sz)

\* The loops nested with x outermost: for x .. { for y .. { for z .. } }
loop_y_x_outermost(y, sx, sy, sz) ==
    [k \in 1..(sx * sy * sz) |->
        <<(k - 1) \div (sy * sz), ((k - 1) \div sz) % sy, (k - 1) % sz>>]

\* for y in 0..size_y { for x .. { for z .. } }: the coordinates in the
\* order the loops of draw_window reach them.
RECURSIVE loop_y(_, _, _, _)
loop_y(y, sx, sy, sz) ==
    IF y >= sy THEN << >> ELSE loop_x(y, 0, sx, sz) \o loop_y(y + 1, sx, sy, sz)

\* One pass of the loop body over the coordinates cs:
\* [ok, visited, frame], stopping at the first panic.
RECURSIVE draw_cells(_, _, _)
draw_cells(w, cs, acc) ==
    IF cs = << >> \/ ~acc.ok THEN acc
    ELSE LET c == Head(cs)
             r == get_tile(w, c[1], c[2], c[3])
         IN IF ~r.ok \/ r.ret = None
            THEN [acc EXCEPT !.ok = FALSE, !.visited = Append(@, c)]
            ELSE draw_cells(w, Tail(cs),
                     [acc EXCEPT !.visited = Append(@, c),
                                 !.frame = @ \o draw_tile_at_grid(r.ret[1], c[1], c[2], c[3])])

draw_window(w) ==
    draw_cells(w, loop_y(0, w.size_x, w.size_y, w.size_z),
               [ok |-> TRUE, visited |-> << >>, frame |-> << >>])

\* ------------------------------------------------------------ inputs
\* The extents new_flat is called with.
Extents ==
    {e \in (0..MaxSize) \X (0..MaxSize) \X (0..MaxSize) : e[1] * e[2] * e[3] <= MaxCells}

\* The coordinates the grid operations are called with: every in-range
\* value and, on either side, one that is out of range for every grid.
Coord == (-1)..MaxSize

\* The smallest x - z whose horizontal pixel offset leaves the i32 range.
BigCoord == 2 ^ (I32_BITS - 5)

\* The coordinates the projection is called with.
PxCoord == ((-MaxCoord)..MaxCoord) \cup {BigCoord - 1, BigCoord, -BigCoord, -BigCoord - 1}

NoCall == [op |-> "none"]

\* ----------------------------------------------------------- actions
Init ==
    /\ tiles = << >>
    /\ size_x = 0
    /\ size_y = 0
    /\ size_z = 0
    /\ pc = "start"
    /\ nset = 0
    /\ call = NoCall
    /\ visited = << >>
    /\ frame = << >>

\* main: let mut world = World::new_flat(..)
NewFlat(sx, sy, sz) ==
    /\ pc = "start"
    /\ LET r == new_flat(sx, sy, sz) IN
        /\ tiles' = r.world.tiles
        /\ size_x' = r.world.size_x
        /\ size_y' = r.world.size_y
        /\ size_z' = r.world.size_z
        /\ pc' = IF r.ok THEN "setup" ELSE "panic"
    /\ UNCHANGED <<nset, call, visited, frame>>

\* main: world.set_tile(..), before the render loop starts. call records
\* which branch of `if let Some(index)` the call took.
SetTile(x, y, z, tile) ==
    /\ pc = "setup"
    /\ nset < MaxWrites
    /\ LET r == set_tile(World, x, y, z, tile) IN
        /\ tiles' = r.world.tiles
        /\ pc' = IF r.ok THEN "setup" ELSE "panic"
    /\ nset' = nset + 1
    /\ call' = [op |-> "set_tile", some |-> get_index(World, x, y, z) # None]
    /\ UNCHANGED <<size_x, size_y, size_z, visited, frame>>

\* main: draw_window(..) in the render loop; window.clear starts the frame.
DrawWindow ==
    /\ pc \in {"setup", "loop"}
    /\ LET r == draw_window(World) IN
        /\ visited' = r.visited
        /\ frame' = r.frame
        /\ pc' = IF r.ok THEN "loop" ELSE "panic"
    /\ UNCHANGED <<tiles, size_x, size_y, size_z, nset, call>>

GetIndex(x, y, z) ==
    /\ pc = "setup"
    /\ call' = [op |-> "get_index", x |-> x, y |-> y, z |-> z,
                ret |-> get_index(World, x, y, z)]
    /\ UNCHANGED <<tiles, size_x, size_y, size_z, pc, nset, visited, frame>>

GetTile(x, y, z) ==
    /\ pc = "setup"
    /\ LET r == get_tile(World, x, y, z) IN
        /\ call' = [op |-> "get_tile", x |-> x, y |-> y, z |-> z, ret |-> r.ret]
        /\ pc' = IF r.ok THEN "setup" ELSE "panic"
    /\ UNCHANGED <<tiles, size_x, size_y, size_z, nset, visited, frame>>

TileCoordsToPx(x, y, z) ==
    /\ call' = [op |-> "tile_coords_to_px", x |-> x, y |-> y, z |-> z,
                ret |-> tile_coords_to_px(x, y, z)]
    /\ UNCHANGED <<tiles, size_x, size_y, size_z, pc, nset, visited, frame>>

TextureRect(tile) ==
    /\ call' = [op |-> "texture_rect", tile |-> tile, id |-> tile_id(tile),
                ret |-> texture_rect(tile)]
    /\ UNCHANGED <<tiles, size_x, size_y, size_z, pc, nset, visited, frame>>

\* The application: new_flat, the set_tile calls, then the render loop.
Next ==
    \/ \E e \in Extents : NewFlat(e[1], e[2], e[3])
    \/ \E x \in Coord, y \in Coord, z \in Coord, tile \in Tile : SetTile(x, y, z, tile)
    \/ DrawWindow

Spec == Init /\ [][Next]_vars

\* The grid's read operations, applied to every grid new_flat builds.
NextQuery ==
    \/ \E e \in Extents : NewFlat(e[1], e[2], e[3])
    \/ \E x \in Coord, y \in Coord, z \in Coord : GetIndex(x, y, z)
    \/ \E x \in Coord, y \in Coord, z \in Coord : GetTile(x, y, z)

SpecQuery == Init /\ [][NextQuery]_vars

\* The pure functions of the catalog and the projector.
NextPure ==
    \/ \E x \in PxCoord, y \in PxCoord, z \in PxCoord : TileCoordsToPx(x, y, z)
    \/ \E tile \in Tile : TextureRect(tile)

SpecPure == Init /\ [][NextPure]_vars

\* ------------------------------------------------- claim vocabulary
\* The coordinates that are in range for the grid w.
InRange(w) == (0..(w.size_x - 1)) \X (0..(w.size_y - 1)) \X (0..(w.size_z - 1))

\* The coordinates the operations are called with.
Coords == Coord \X Coord \X Coord

OutOfRange(w, c) ==
    \/ c[1] < 0 \/ c[1] >= w.size_x
    \/ c[2] < 0 \/ c[2] >= w.size_y
    \/ c[3] < 0 \/ c[3] >= w.size_z

Cells(w) == w.size_x * w.size_y * w.size_z

\* The tile stored at the in-range coordinate c of w, read through get_tile.
TileAt(w, c) == get_tile(w, c[1], c[2], c[3]).ret

Built == pc \in {"setup", "loop"}

\* ----------------------------------------------------------------- C1
\* C1: for every grid and every in-range coordinate, get_index returns
\* x + y*size_x + z*size_x*size_y, the index lies in [0, size_x*size_y*size_z),
\* distinct in-range coordinates get distinct indices, every index of the
\* range is the index of some in-range coordinate, and
\* (i mod size_x, (i div size_x) mod size_y, i div (size_x*size_y)) recovers
\* the coordinate.
C1_IndexBijection ==
    Built =>
        LET w == World IN
        /\ \A c \in InRange(w) :
              LET r == get_index(w, c[1], c[2], c[3]) IN
              /\ r = Some(c[1] + c[2] * size_x + c[3] * size_x * size_y)
              /\ r[1] >= 0 /\ r[1] < Cells(w)
              /\ c[1] = r[1] % size_x
              /\ c[2] = (r[1] \div size_x) % size_y
              /\ c[3] = r[1] \div (size_x * size_y)
        /\ \A c \in InRange(w), d \in InRange(w) :
              c # d => get_index(w, c[1], c[2], c[3]) # get_index(w, d[1], d[2], d[3])
        /\ \A i \in 0..(Cells(w) - 1) :
              \E c \in InRange(w) : get_index(w, c[1], c[2], c[3]) = Some(i)
        /\ (call.op = "get_index" /\ <<call.x, call.y, call.z>> \in InRange(w)) =>
              /\ call.ret = Some(call.x + call.y * size_x + call.z * size_x * size_y)
              /\ call.ret[1] \in 0..(Cells(w) - 1)

\* get_index(1, 1, 1) returned 7 on a 2 x 2 x 2 grid.
C1_Witness ==
    /\ size_x = 2 /\ size_y = 2 /\ size_z = 2
    /\ call.op = "get_index"
    /\ <<call.x, call.y, call.z>> = <<1, 1, 1>>
    /\ call.ret = Some(7)

\* ----------------------------------------------------------------- C2
\* C2: for any grid state and any coordinate with a component < 0 or >= the
\* matching extent, get_index and get_tile return absent without failing,
\* and set_tile with any tile returns leaving the tiles, the storage length
\* and the three extents as they were.
C2_OutOfBoundsRejected ==
    /\ pc = "setup" =>
          LET w == World IN
          \A c \in Coords :
            OutOfRange(w, c) =>
              /\ get_index(w, c[1], c[2], c[3]) = None
              /\ get_tile(w, c[1], c[2], c[3]) = [ok |-> TRUE, ret |-> None]
              /\ \A tile \in Tile :
                    set_tile(w, c[1], c[2], c[3], tile) = [ok |-> TRUE, world |-> w]
    /\ (call.op = "set_tile" /\ ~call.some /\ nset = 1) =>
          /\ pc # "panic"
          /\ new_flat(size_x, size_y, size_z).world = World

\* An out-of-bounds set_tile was the first call on a 2 x 2 x 2 grid.
C2_Witness ==
    /\ pc = "setup"
    /\ size_x = 2 /\ size_y = 2 /\ size_z = 2
    /\ call.op = "set_tile" /\ ~call.some /\ nset = 1

LexBefore(a, b) ==
    \/ a[2] < b[2]
    \/ a[2] = b[2] /\ a[1] < b[1]
    \/ a[2] = b[2] /\ a[1] = b[1] /\ a[3] < b[3]

\* The visited coordinates whose tile is not Air, in the order visited.
DrawnCells == SelectSeq(visited, LAMBDA c : TileAt(World, c) # Some("Air"))

\* C4: one draw_window pass visits every in-range coordinate exactly once
\* and no other, in ascending order of (y, x, z); the draw commands come in
\* that order, so a command of a lower y precedes every command of a
\* higher y.
C4_DrawOrder ==
    pc = "loop" =>
        LET drawn == DrawnCells IN
        /\ Len(visited) = Cells(World)
        /\ {visited[k] : k \in 1..Len(visited)} = InRange(World)
        /\ \A k \in 1..(Len(visited) - 1) : LexBefore(visited[k], visited[k + 1])
        /\ Len(frame) = Len(drawn)
        /\ \A k \in 1..Len(frame) :
              frame[k].position = tile_coords_to_px(drawn[k][1], drawn[k][2], drawn[k][3])
        /\ \A j \in 1..Len(frame), k \in 1..Len(frame) :
              drawn[j][2] < drawn[k][2] => j < k

\* A pass over a 2 x 2 x 2 grid with a tile drawn on the upper level.
C4_Witness ==
    /\ pc = "loop"
    /\ size_x = 2 /\ size_y = 2 /\ size_z = 2
    /\ Len(visited) = 8
    /\ \E k \in 1..Len(DrawnCells) : DrawnCells[k][2] = 1

\* ----------------------------------------------------------------- C5
\* C5: one draw_window pass emits exactly one command for each cell whose
\* tile is not Air and none for an Air cell, so the number of commands is
\* the number of non-Air cells and an all-Air grid gives no command; each
\* command carries tile_coords_to_px of its cell, the size 32 x 32 and the
\* atlas rectangle of the cell's tile.
C5_OneCommandPerTile ==
    pc = "loop" =>
        LET drawn == DrawnCells IN
        /\ Len(frame) = Cardinality({c \in InRange(World) : TileAt(World, c) # Some("Air")})
        /\ Len(frame) = Len(drawn)
        /\ \A k \in 1..Len(frame) :
              LET c == drawn[k]
                  id == tile_id(TileAt(World, c)[1])
              IN /\ frame[k].position = tile_coords_to_px(c[1], c[2], c[3])
                 /\ frame[k].size = <<32, 32>>
                 /\ frame[k].texture_rect = <<32 * (id % 16), 32 * (id \div 16), 32, 32>>
        /\ (\A c \in InRange(World) : TileAt(World, c) = Some("Air")) => frame = << >>

\* A pass over a grid holding Air, Grass and a grown plant.
C5_Witness ==
    /\ pc = "loop"
    /\ Len(frame) > 1 /\ Len(frame) < Len(visited)
    /\ \E k \in 1..Len(frame) : frame[k].texture_rect = <<96, 0, 32, 32>>

\* ----------------------------------------------------------------- C6
\* C6: on every grid reachable from new_flat by set_tile calls, in or out
\* of bounds, every coordinate the draw loop visits is in bounds and its
\* index is below the storage length, so neither the unwrap of the read
\* nor the indexing of the storage fails.
C6_DrawNeverPanics ==
    /\ pc # "panic"
    /\ Built =>
          LET pass == draw_window(World) IN
          /\ pass.ok
          /\ Len(pass.visited) = Cells(World)
          /\ \A k \in 1..Len(pass.visited) :
                LET c == pass.visited[k]
                    i == get_index(World, c[1], c[2], c[3])
                IN i # None /\ i[1] < Len(tiles)

\* A pass completed on a non-empty grid after in- and out-of-bounds writes.
C6_Witness ==
    /\ pc = "loop"
    /\ nset > 1
    /\ Len(visited) > 3
    /\ \E k \in 1..Len(tiles) : tiles[k] = "Plant_false"

\* ----------------------------------------------------------------- C9
\* The 32 x 32 rectangles placed at p and q share a pixel.
Overlap(p, q) ==
    /\ p[1] < q[1] + 32 /\ q[1] < p[1] + 32
    /\ p[2] < q[2] + 32 /\ q[2] < p[2] + 32

\* C9 as stated: the destination rectangles of two distinct cells of the
\* same y, drawn in one pass, share no pixel.
C9_Original ==
    pc = "loop" =>
        LET drawn == DrawnCells IN
        \A j \in 1..Len(frame), k \in 1..Len(frame) :
            (j # k /\ drawn[j][2] = drawn[k][2])
                => ~Overlap(frame[j].position, frame[k].position)

\* C9, amended: the destination rectangles of two distinct cells of the
\* same y, drawn in one pass, are never the same rectangle (they are placed
\* at different positions); rectangles of neighbouring cells do overlap.
C9_DistinctDestinations ==
    pc = "loop" =>
        LET drawn == DrawnCells IN
        /\ Len(frame) = Len(drawn)
        /\ \A j \in 1..Len(frame), k \in 1..Len(frame) :
              (j # k /\ drawn[j][2] = drawn[k][2])
                  => frame[j].position # frame[k].position

\* Two cells of the same y were drawn at overlapping, different positions.
C9_Witness ==
    /\ pc = "loop"
    /\ Len(frame) = Len(DrawnCells)
    /\ \E j \in 1..Len(frame), k \in 1..Len(frame) :
          /\ j < k
          /\ DrawnCells[j][2] = DrawnCells[k][2]
          /\ Overlap(frame[j].position, frame[k].position)
          /\ frame[j].position # frame[k].position

\* ---------------------------------------------------------------- C10
\* C10: an in-bounds set_tile(x, y, z, t) returns with get_tile(x, y, z) = t,
\* get_tile at every other in-range coordinate as before, and the storage
\* length and the extents unchanged; the grid is never resized, and after n
\* set_tile calls at most n cells differ from what new_flat stored.
C10_SetTileFrame ==
    /\ Built =>
          /\ Len(tiles) = size_x * size_y * size_z
          /\ Cardinality({c \in InRange(World) :
                TileAt(World, c) # Some(IF c[2] = 0 THEN "Grass" ELSE "Air")}) <= nset
    /\ pc = "setup" =>
          LET w == World IN
          \A c \in InRange(w), tile \in Tile :
              LET r == set_tile(w, c[1], c[2], c[3], tile) IN
              /\ r.ok
              /\ TileAt(r.world, c) = Some(tile)
              /\ \A d \in InRange(w) : d # c => TileAt(r.world, d) = TileAt(w, d)
              /\ Len(r.world.tiles) = Len(tiles)
              /\ r.world.size_x = size_x
              /\ r.world.size_y = size_y
              /\ r.world.size_z = size_z

\* In-bounds writes put a plant on the upper level of a 2 x 2 x 2 grid
\* and cleared a ground cell; the other cells are as new_flat left them.
C10_Witness ==
    /\ pc = "setup"
    /\ call.op = "set_tile" /\ call.some
    /\ size_x = 2 /\ size_y = 2 /\ size_z = 2
    /\ TileAt(World, <<1, 1, 1>>) = Some("Plant_true")
    /\ TileAt(World, <<0, 0, 0>>) = Some("Air")
    /\ \A c \in InRange(World) \ {<<1, 1, 1>>, <<0, 0, 0>>} :
          TileAt(World, c) = Some(IF c[2] = 0 THEN "Grass" ELSE "Air")

\* ----------------------------------------------------------------- C7
\* The integer v is k times the integer n. (Stated by division, so that
\* the product k * n is not formed where it exceeds TLC's 32-bit integers.)
IsProduct(v, k, n) == v % k = 0 /\ v \div k = n

\* A call tile_coords_to_px(x, y, z) returned p.
PxOf(x, y, z, p) ==
    (call.op = "tile_coords_to_px" /\ <<call.x, call.y, call.z>> = <<x, y, z>>)
        => call.ret = p

\* C7 as stated: for every coordinate, tile_coords_to_px returns
\* ((x - z) * 16, (x + z - 2*y) * 8); (0,0,0) -> (0,0), (1,0,0) -> (16,8),
\* (0,0,1) -> (-16,8), (0,1,0) -> (0,-8).
C7_Original ==
    /\ PxOf(0, 0, 0, <<0, 0>>)
    /\ PxOf(1, 0, 0, <<16, 8>>)
    /\ PxOf(0, 0, 1, <<-16, 8>>)
    /\ PxOf(0, 1, 0, <<0, -8>>)
    /\ call.op = "tile_coords_to_px" =>
          /\ IsProduct(call.ret[1], 16, call.x - call.z)
          /\ IsProduct(call.ret[2], 8, call.x + call.z - 2 * call.y)

\* Both pixel offsets of the coordinate fit the i32 components of Vector2i.
FitsI32(x, y, z) ==
    /\ x - z >= -BigCoord /\ x - z < BigCoord
    /\ x + z - 2 * y >= -2 * BigCoord /\ x + z - 2 * y < 2 * BigCoord

\* C7, amended: for every coordinate with -2^27 <= x - z < 2^27 and
\* -2^28 <= x + z - 2*y < 2^28, tile_coords_to_px returns
\* ((x - z) * 16, (x + z - 2*y) * 8); (0,0,0) -> (0,0), (1,0,0) -> (16,8),
\* (0,0,1) -> (-16,8) and (0,1,0) -> (0,-16).
C7_Projection ==
    /\ PxOf(0, 0, 0, <<0, 0>>)
    /\ PxOf(1, 0, 0, <<16, 8>>)
    /\ PxOf(0, 0, 1, <<-16, 8>>)
    /\ PxOf(0, 1, 0, <<0, -16>>)
    /\ (call.op = "tile_coords_to_px" /\ FitsI32(call.x, call.y, call.z)) =>
          /\ IsProduct(call.ret[1], 16, call.x - call.z)
          /\ IsProduct(call.ret[2], 8, call.x + call.z - 2 * call.y)

\* tile_coords_to_px(2^27 - 1, 1, 0): the largest horizontal offset that fits.
C7_Witness ==
    /\ call.op = "tile_coords_to_px"
    /\ <<call.x, call.y, call.z>> = <<BigCoord - 1, 1, 0>>
    /\ call.ret = <<(BigCoord - 1) * 16, (BigCoord - 3) * 8>>

\* ----------------------------------------------------------------- C8
NonAir == Tile \ {"Air"}

\* C8: texture_rect returns absent exactly for Air and otherwise the
\* rectangle at (32 * (tile_id mod 16), 32 * (tile_id div 16)) of size
\* 32 x 32; id 3 maps to the origin (96, 0) and id 16 to (0, 32); Grass,
\* Plant(false) and Plant(true) have pairwise distinct ids and rectangles
\* with non-negative origins.
C8_TextureRect ==
    /\ \A t \in Tile : (texture_rect(t) = None) <=> (t = "Air")
    /\ \A t \in NonAir :
          /\ texture_rect(t) =
                Some(<<32 * (tile_id(t) % 16), 32 * (tile_id(t) \div 16), 32, 32>>)
          /\ texture_rect(t)[1][1] >= 0 /\ texture_rect(t)[1][2] >= 0
    /\ tile_id("Plant_true") = 3
    /\ texture_rect("Plant_true") = Some(<<96, 0, 32, 32>>)
    /\ atlas_rect(16) = <<0, 32, 32, 32>>
    /\ \A t \in NonAir, u \in NonAir :
          t # u => (tile_id(t) # tile_id(u) /\ texture_rect(t) # texture_rect(u))
    /\ call.op = "texture_rect" =>
          /\ (call.ret = None) <=> (call.tile = "Air")
          /\ call.tile # "Air" =>
                call.ret = Some(<<32 * (call.id % 16), 32 * (call.id \div 16), 32, 32>>)

\* texture_rect(Plant(true)) returned the rectangle at (96, 0).
C8_Witness ==
    /\ call.op = "texture_rect"
    /\ call.tile = "Plant_true"
    /\ call.ret = Some(<<96, 0, 32, 32>>)

====
